---- MODULE Spec2Model ----
EXTENDS Integers, Sequences, FiniteSets, TLC

(***************************************************************************)
(* Projection pushdown through an unpivot node (process_unpivot) and the   *)
(* clip kernels of polars-ops.                                             *)
(***************************************************************************)

\* ---------------------------------------------------------------- bounds
MaxReq == 2

\* ---------------------------------------------------------------- helpers
Range(s) == {s[i] : i \in DOMAIN s}

Names(es) == [i \in DOMAIN es |-> es[i].name]

\* all sequences of pairwise distinct elements of S with length <= k
DistinctSeqs(S, k) ==
    UNION {{f \in [1..m -> S] : \A i, j \in 1..m : i # j => f[i] # f[j]} : m \in 0..k}

\* ------------------------------------------------ expressions of the plan
\* A column reference, as added by add_str_to_accumulated.
Col(c) == [name |-> c, refs |-> {c}, composite |-> FALSE]

\* Output schema of an unpivot node: index columns, then key and value.
UnpivotSchema(idx) == idx \o <<"variable", "value">>

\* Input schemas of the child and the unpivot arguments the plan can hold.
InputSchemas == {<<"id", "y1", "y2">>, <<"id", "x", "y1", "y2">>}
IndexArgs == {<<>>, <<"id">>}
OnArgs == {<<>>, <<"y1">>, <<"y1", "y2">>}
ChildErrs == {"none", "SchemaMismatch"}

\* What a parent can require from the unpivot node: ctx.acc_projections hold
\* column nodes only (project_simple_nodes, line 48), naming output columns.
ReqExprs(idx) == {Col(c) : c \in Range(UnpivotSchema(idx))}

\* split_acc_projections: an expression is forwardable when it is a plain
\* column reference whose columns all exist in the child's schema.
Forwardable(e, sch) == ~e.composite /\ e.refs \subseteq sch

SplitForward(acc, sch) == SelectSeq(acc, LAMBDA e : Forwardable(e, sch))
SplitLocal(acc, sch) == SelectSeq(acc, LAMBDA e : ~Forwardable(e, sch))
SplitNames(acc, sch) == UNION {e.refs \cap sch : e \in Range(acc)}

NoResult == [kind |-> "none", exprs |-> <<>>, schema |-> <<>>, err |-> "none"]

\* no_pushdown_restart_opt finishes the node with a simple projection of the
\* context's acc_projections, or returns it bare when there are none.
RestartFinish(ctxAcc, nodeSchema) ==
    IF ctxAcc = <<>>
    THEN [NoResult EXCEPT !.kind = "unpivot", !.schema = nodeSchema]
    ELSE [NoResult EXCEPT !.kind = "project", !.exprs = ctxAcc,
                          !.schema = Names(ctxAcc)]
\* add_str_to_accumulated over the names of lines 30-35: an empty context
\* already projects every column, so names are only added to a non-empty one.
AddStrToAccumulated(ctxAcc, ctxNames, names) ==
    IF ctxAcc = <<>> THEN ctxNames ELSE ctxNames \cup names

NoNode == [index |-> <<>>, on |-> <<>>, ctx |-> <<>>]

VARIABLES
    pc,             \* position in process_unpivot
    inputSchema,    \* schema of the input node
    index, on,      \* UnpivotArgsIR
    req,            \* ctx.acc_projections handed in by the parent
    childErr,       \* error raised by the rewrite of the input subtree
    acc,            \* forwardable group of split_acc_projections
    loc0,           \* local group of split_acc_projections
    localProj,      \* local_projections after extension (line 24-26)
    childCtx,       \* column names of the context pushed into the input
    restartCalled, restartNode,  \* call of no_pushdown_restart_opt
    childSchema, childFinal,     \* rewritten input slot
    rebuilt,        \* schema of the rebuilt unpivot node
    result          \* returned IR or error

uvars == <<pc, inputSchema, index, on, req, childErr, acc, loc0, localProj,
           childCtx, restartCalled, restartNode, childSchema, childFinal,
           rebuilt, result>>

InitUnpivot ==
    /\ pc = "start"
    /\ inputSchema \in InputSchemas
    /\ index \in IndexArgs
    /\ on \in OnArgs
    /\ req \in DistinctSeqs(ReqExprs(index), MaxReq)
    /\ childErr \in ChildErrs
    /\ acc = <<>> /\ loc0 = <<>> /\ localProj = <<>>
    /\ childCtx = {}
    /\ restartCalled = FALSE /\ restartNode = NoNode
    /\ childSchema = <<>> /\ childFinal = FALSE
    /\ rebuilt = <<>>
    /\ result = NoResult

\* ---- variants of process_unpivot lines 13-35 used as plausible faults
ProcessUnpivotNarrowDynamic ==
    /\ pc = "start"
    /\ LET sch == Range(inputSchema)
           fwd == SplitForward(req, sch)
           lc == SplitLocal(req, sch)
       IN /\ acc' = fwd
          /\ loc0' = lc
          /\ localProj' = IF lc = <<>> THEN <<>> ELSE lc \o fwd
          /\ childCtx' = Range(Names(fwd)) \cup SplitNames(req, sch)
                         \cup Range(index) \cup Range(on)
          /\ restartCalled' = (on = <<>>)
          /\ restartNode' = IF on = <<>> THEN [index |-> index, on |-> on, ctx |-> req] ELSE NoNode
    /\ pc' = "pushdown"
    /\ UNCHANGED <<inputSchema, index, on, req, childErr, childSchema, childFinal,
                   rebuilt, result>>

ProcessUnpivotStatic(addOn, localFirst, skipPushdown) ==
    /\ pc = "start"
    /\ IF on = <<>>
       THEN /\ restartCalled' = TRUE
            /\ restartNode' = [index |-> index, on |-> on, ctx |-> req]
            /\ childCtx' = {}
            /\ UNCHANGED <<acc, loc0, localProj>>
       ELSE LET sch == Range(inputSchema)
                fwd == SplitForward(req, sch)
                lc == SplitLocal(req, sch)
                nms == SplitNames(req, sch)
            IN /\ acc' = fwd
               /\ loc0' = lc
               /\ localProj' = IF lc = <<>> THEN <<>>
                                ELSE IF localFirst THEN lc \o fwd ELSE fwd \o lc
               /\ childCtx' = AddStrToAccumulated(fwd, Range(Names(fwd)) \cup nms,
                                   Range(index) \cup (IF addOn THEN Range(on) ELSE {}))
               /\ UNCHANGED <<restartCalled, restartNode>>
    /\ pc' = IF skipPushdown /\ on # <<>> THEN "rebuild" ELSE "pushdown"
    /\ UNCHANGED <<inputSchema, index, on, req, childErr, childSchema, childFinal,
                   rebuilt, result>>

ProcessUnpivotNoOn == ProcessUnpivotStatic(FALSE, TRUE, FALSE)
ProcessUnpivotForwardFirst == ProcessUnpivotStatic(TRUE, FALSE, FALSE)
ProcessUnpivotSkipPushdown == ProcessUnpivotStatic(TRUE, TRUE, TRUE)

\* process_unpivot, lines 13-35: either restart, or split the context and
\* build the context for the input.
ProcessUnpivot ==
    /\ pc = "start"
    /\ IF on = <<>>
       THEN /\ restartCalled' = TRUE
            /\ restartNode' = [index |-> index, on |-> on, ctx |-> req]
            /\ childCtx' = {}
            /\ UNCHANGED <<acc, loc0, localProj>>
       ELSE LET sch == Range(inputSchema)
                fwd == SplitForward(req, sch)
                lc == SplitLocal(req, sch)
                nms == SplitNames(req, sch)
            IN /\ acc' = fwd
               /\ loc0' = lc
               /\ localProj' = IF lc = <<>> THEN <<>> ELSE lc \o fwd
               /\ childCtx' = AddStrToAccumulated(fwd, Range(Names(fwd)) \cup nms,
                                                  Range(index) \cup Range(on))
               /\ UNCHANGED <<restartCalled, restartNode>>
    /\ pc' = "pushdown"
    /\ UNCHANGED <<inputSchema, index, on, req, childErr, childSchema, childFinal,
                   rebuilt, result>>

\* ---- variant of line 37 that drops the error of the input rewrite
PushdownAndAssignIgnoreErr ==
    /\ pc = "pushdown"
    /\ childSchema' = IF childCtx = {} THEN inputSchema
                      ELSE SelectSeq(inputSchema, LAMBDA c : c \in childCtx)
    /\ childFinal' = TRUE
    /\ pc' = "rebuild"
    /\ UNCHANGED <<inputSchema, index, on, req, childErr, acc, loc0, localProj,
                   childCtx, restartCalled, restartNode, rebuilt, result>>

\* pushdown_and_assign on the input (line 37, and the recursion of the
\* restart fallback): an empty context requests every column.
PushdownAndAssign ==
    /\ pc = "pushdown"
    /\ IF childErr # "none"
       THEN /\ result' = [NoResult EXCEPT !.kind = "err", !.err = childErr]
            /\ pc' = "done"
            /\ UNCHANGED <<childSchema, childFinal>>
       ELSE /\ childSchema' = IF childCtx = {} THEN inputSchema
                              ELSE SelectSeq(inputSchema, LAMBDA c : c \in childCtx)
            /\ childFinal' = TRUE
            /\ pc' = "rebuild"
            /\ UNCHANGED result
    /\ UNCHANGED <<inputSchema, index, on, req, childErr, acc, loc0, localProj,
                   childCtx, restartCalled, restartNode, rebuilt>>

\* IRBuilder::unpivot(...).build() (lines 40-42): infallible; the schema is
\* recomputed from the unchanged arguments. With an empty `on` this is the
\* node rebuilt by no_pushdown_restart_opt over the rewritten input, finished
\* with the context line 15 hands it.
Rebuild ==
    /\ pc = "rebuild"
    /\ rebuilt' = UnpivotSchema(index)
    /\ IF on = <<>>
       THEN /\ result' = RestartFinish(restartNode.ctx, UnpivotSchema(index))
            /\ pc' = "done"
       ELSE /\ pc' = "finish"
            /\ UNCHANGED result
    /\ UNCHANGED <<inputSchema, index, on, req, childErr, acc, loc0, localProj,
                   childCtx, restartCalled, restartNode, childSchema, childFinal>>

\* ---- variant of lines 44-51 that projects the local group only
FinishLocalOnly ==
    /\ pc = "finish"
    /\ result' =
         IF loc0 = <<>>
         THEN [NoResult EXCEPT !.kind = "unpivot", !.schema = rebuilt]
         ELSE [NoResult EXCEPT !.kind = "project", !.exprs = loc0,
                               !.schema = Names(loc0)]
    /\ pc' = "done"
    /\ UNCHANGED <<inputSchema, index, on, req, childErr, acc, loc0, localProj,
                   childCtx, restartCalled, restartNode, childSchema, childFinal,
                   rebuilt>>

\* lines 44-51: return the node, or wrap it in project_simple_nodes(..).unwrap()
Finish ==
    /\ pc = "finish"
    /\ result' =
         IF localProj = <<>>
         THEN [NoResult EXCEPT !.kind = "unpivot", !.schema = rebuilt]
         ELSE IF \A i \in DOMAIN localProj : localProj[i].refs \subseteq Range(rebuilt)
              THEN [NoResult EXCEPT !.kind = "project", !.exprs = localProj,
                                    !.schema = Names(localProj)]
              ELSE [NoResult EXCEPT !.kind = "panic"]
    /\ pc' = "done"
    /\ UNCHANGED <<inputSchema, index, on, req, childErr, acc, loc0, localProj,
                   childCtx, restartCalled, restartNode, childSchema, childFinal,
                   rebuilt>>

NextUnpivot == ProcessUnpivot \/ PushdownAndAssign \/ Rebuild \/ Finish

\* ================================================================ clip
\* polars-ops/src/series/ops/clip.rs. A series is a sequence of values with
\* Null for a missing value; values are those of a physical integer type.

MaxLen == 2

Null == -1
Vals == 0..2
Numeric == {"i64"}
DTypes == {"i64", "str"}
Ops == {"clip", "clip_min", "clip_max"}

Elem(val, ok) == [val |-> val, assert |-> ok]

\* num_traits::clamp: debug_assert!(min <= max), then the release result.
NumClamp(v, lo, hi) ==
    Elem(IF v < lo THEN lo ELSE IF v > hi THEN hi ELSE v, lo <= hi)
\* num_traits::clamp_min / clamp_max
ClampMin(v, lo) == Elem(IF v < lo THEN lo ELSE v, TRUE)
ClampMax(v, hi) == Elem(IF v > hi THEN hi ELSE v, TRUE)

\* The closure handed to an elementwise helper: "clamp", "min", "max" or
\* "id" (the value unchanged).
ApplyOp(f, v, lo, hi) ==
    CASE f = "clamp" -> NumClamp(v, lo, hi)
      [] f = "min" -> ClampMin(v, lo)
      [] f = "max" -> ClampMax(v, hi)
      [] OTHER -> Elem(v, TRUE)

\* clip_unary: unary_elementwise over Option, nulls stay null
ClipUnary(ca, f, lo, hi) ==
    [i \in DOMAIN ca |-> IF ca[i] = Null THEN Elem(Null, TRUE) ELSE ApplyOp(f, ca[i], lo, hi)]

\* clip_binary: zips s with the bound; null value -> null, null bound -> value
\* unchanged; the bound fills the lower (side = "lo") or upper side of the
\* closure.
ClipBinary(ca, b, f, side, lo, hi) ==
    [i \in DOMAIN ca \cap DOMAIN b |->
        IF ca[i] = Null THEN Elem(Null, TRUE)
        ELSE IF b[i] = Null THEN Elem(ca[i], TRUE)
        ELSE IF side = "lo" THEN ApplyOp(f, ca[i], b[i], hi)
        ELSE ApplyOp(f, ca[i], lo, b[i])]

\* clip_ternary: zips s with both bounds
ClipTernary(ca, mn, mx) ==
    [i \in DOMAIN ca \cap DOMAIN mn \cap DOMAIN mx |->
        IF ca[i] = Null THEN Elem(Null, TRUE)
        ELSE IF mn[i] # Null /\ mx[i] # Null THEN NumClamp(ca[i], mn[i], mx[i])
        ELSE IF mn[i] # Null THEN ClampMin(ca[i], mn[i])
        ELSE IF mx[i] # Null THEN ClampMax(ca[i], mx[i])
        ELSE Elem(ca[i], TRUE)]

ClipHelperBothBounds(ca, mn, mx) ==
    IF Len(mn) = 1 /\ Len(mx) = 1 THEN
        IF mn[1] # Null /\ mx[1] # Null THEN ClipUnary(ca, "clamp", mn[1], mx[1])
        ELSE IF mn[1] # Null THEN ClipUnary(ca, "min", mn[1], Null)
        ELSE IF mx[1] # Null THEN ClipUnary(ca, "max", Null, mx[1])
        ELSE ClipUnary(ca, "id", Null, Null)
    ELSE IF Len(mn) = 1 THEN
        IF mn[1] # Null THEN ClipBinary(ca, mx, "clamp", "hi", mn[1], Null)
        ELSE ClipBinary(ca, mx, "max", "hi", Null, Null)
    ELSE IF Len(mx) = 1 THEN
        IF mx[1] # Null THEN ClipBinary(ca, mn, "clamp", "lo", Null, mx[1])
        ELSE ClipBinary(ca, mn, "min", "lo", Null, Null)
    ELSE ClipTernary(ca, mn, mx)

\* f is "min" for clip_min (num_traits::clamp_min), "max" for clip_max
ClipHelperSingleBound(ca, b, f) ==
    IF Len(b) = 1 THEN
        IF b[1] # Null THEN ClipUnary(ca, f, b[1], b[1])
        ELSE ClipUnary(ca, "id", Null, Null)
    ELSE ClipBinary(ca, b, f, IF f = "min" THEN "lo" ELSE "hi", Null, Null)

\* clip, lines 11-28: n is the first length that is not 1
ClipN(ls, lmin, lmax) ==
    IF ls # 1 THEN ls ELSE IF lmin # 1 THEN lmin ELSE IF lmax # 1 THEN lmax ELSE 1

ClipLengthsOkFirst(ls, lmin, lmax) ==
    \A l \in {ls, lmin, lmax} : l = ls \/ l = 1

ClipLengthsOk(ls, lmin, lmax) ==
    \A l \in {ls, lmin, lmax} : l = ClipN(ls, lmin, lmax) \/ l = 1

\* clip_min / clip_max, lines 62-67 and 96-101
ClipSingleLengthOk(ls, lb) == ls = lb \/ ls = 1 \/ lb = 1

VARIABLES
    cop,      \* which of clip, clip_min, clip_max is called
    cdtype,   \* dtype of s
    cs, cmin, cmax,   \* the series and the bounds
    cbuild,   \* debug or release build of num_traits
    cpc,      \* "call" or "done"
    cout      \* [status, vals, err]

cvars == <<cop, cdtype, cs, cmin, cmax, cbuild, cpc, cout>>
vars == <<uvars, cvars>>

NoOut == [status |-> "none", vals |-> <<>>, err |-> "none"]

\* The call of clip / clip_min / clip_max: dtype check, length check, then the
\* kernel. The elementwise helpers zip s with a bound, so a length-1 s
\* against a longer bound yields one value (or panics on a split-chunk layout).
ClipCall ==
    /\ cpc = "call"
    /\ cpc' = "done"
    /\ LET lenOk == IF cop = "clip" THEN ClipLengthsOk(Len(cs), Len(cmin), Len(cmax))
                    ELSE IF cop = "clip_min" THEN ClipSingleLengthOk(Len(cs), Len(cmin))
                    ELSE ClipSingleLengthOk(Len(cs), Len(cmax))
           bounds == IF cop = "clip" THEN {cmin, cmax}
                     ELSE IF cop = "clip_min" THEN {cmin} ELSE {cmax}
           kernel == IF cop = "clip" THEN ClipHelperBothBounds(cs, cmin, cmax)
                     ELSE IF cop = "clip_min" THEN ClipHelperSingleBound(cs, cmin, "min")
                     ELSE ClipHelperSingleBound(cs, cmax, "max")
       IN IF cdtype \notin Numeric
          THEN cout' = [NoOut EXCEPT !.status = "err", !.err = "InvalidOperation"]
          ELSE IF ~lenOk
          THEN cout' = [NoOut EXCEPT !.status = "err", !.err = "LengthMismatch"]
          ELSE LET normal ==
                     IF cbuild = "debug" /\ \E i \in DOMAIN kernel : ~kernel[i].assert
                     THEN [NoOut EXCEPT !.status = "panic"]
                     ELSE [NoOut EXCEPT !.status = "ok",
                              !.vals = [i \in DOMAIN kernel |-> kernel[i].val]]
               IN IF \A b \in bounds : Len(b) \in {1, Len(cs)}
                  THEN cout' = normal
                  \* a length-1 s against a longer bound: the elementwise zip
                  \* stops at s's length, a split-chunk layout panics
                  ELSE cout' \in {normal, [NoOut EXCEPT !.status = "panic"]}
    /\ UNCHANGED <<cop, cdtype, cs, cmin, cmax, cbuild>>

SeqsOfLen(k) == [1..k -> Vals \cup {Null}]
Bounds(n) == SeqsOfLen(1) \cup SeqsOfLen(n)

UnpivotIdle ==
    /\ pc = "idle" /\ inputSchema = <<>> /\ index = <<>> /\ on = <<>>
    /\ req = <<>> /\ childErr = "none" /\ acc = <<>> /\ loc0 = <<>>
    /\ localProj = <<>> /\ childCtx = {} /\ restartCalled = FALSE
    /\ restartNode = NoNode /\ childSchema = <<>> /\ childFinal = FALSE
    /\ rebuilt = <<>> /\ result = NoResult

ClipIdle ==
    /\ cop = "clip" /\ cdtype = "i64" /\ cs = <<>> /\ cmin = <<>> /\ cmax = <<>>
    /\ cbuild = "release" /\ cpc = "idle" /\ cout = NoOut

Init == InitUnpivot /\ ClipIdle
Next == NextUnpivot /\ UNCHANGED cvars
Spec == Init /\ [][Next]_vars

\* Values: s of length n, each bound a scalar or of length n.
InitClip ==
    /\ UnpivotIdle
    /\ cop \in Ops
    /\ cdtype = "i64"
    /\ \E n \in 1..MaxLen :
          /\ cs \in SeqsOfLen(n)
          /\ cmin \in (IF cop = "clip_max" THEN {<<>>} ELSE Bounds(n))
          /\ cmax \in (IF cop = "clip_min" THEN {<<>>} ELSE Bounds(n))
    /\ cbuild \in {"debug", "release"}
    /\ cpc = "call" /\ cout = NoOut

NextClip == ClipCall /\ UNCHANGED uvars
SpecClip == InitClip /\ [][NextClip]_vars

\* Lengths and dtypes: every combination of lengths up to MaxLen + 1.
InitClipLen ==
    /\ UnpivotIdle
    /\ cop \in Ops
    /\ cdtype \in DTypes
    /\ cs \in {[i \in 1..k |-> 0] : k \in 0..MaxLen + 1}
    /\ cmin \in {[i \in 1..k |-> 0] : k \in 0..MaxLen + 1}
    /\ cmax \in {[i \in 1..k |-> 0] : k \in 0..MaxLen + 1}
    /\ cbuild = "release"
    /\ cpc = "call" /\ cout = NoOut

SpecClipLen == InitClipLen /\ [][NextClip]_vars

\* ================================================================ claims

\* C1: with an empty `on` list, process_unpivot calls no_pushdown_restart_opt
\* on the unmodified node with an unconstrained context: no split, no local
\* projection, and the input keeps every column of its schema.
C1_DynamicRestart ==
    (on = <<>> /\ pc # "start") =>
        /\ restartCalled
        /\ restartNode = [index |-> index, on |-> on, ctx |-> req]
        /\ childCtx = {}
        /\ acc = <<>> /\ localProj = <<>>
        /\ (childFinal => childSchema = inputSchema)
        /\ (result.kind = "project" => result.exprs = req)

C1_Witness ==
    on = <<>> /\ pc = "done" /\ result.kind = "project"
    /\ Len(req) > 0 /\ Len(inputSchema) = 4

\* C2: with a non-empty `on`, the context pushed into the input holds every
\* index and on column, and the rewritten input outputs all of them,
\* whatever the parent required.
C2_StructuralInclusion ==
    (on # <<>> /\ pc # "start") =>
        /\ Range(index) \cup Range(on) \subseteq childCtx
        /\ (childFinal => Range(index) \cup Range(on) \subseteq Range(childSchema))

\* C2 (amended): the context pushed into the input is either empty (every
\* column, when nothing is forwardable) or holds every index and on column;
\* either way the rewritten input outputs all of them.
C2_StructuralInclusionAmended ==
    (on # <<>> /\ pc # "start") =>
        /\ childCtx = {} \/ Range(index) \cup Range(on) \subseteq childCtx
        /\ (childFinal => Range(index) \cup Range(on) \subseteq Range(childSchema))

C2_Witness ==
    on # <<>> /\ index # <<>> /\ childFinal /\ childCtx # {}
    /\ Len(inputSchema) = 4 /\ "x" \notin Range(childSchema)

\* C3: in the static branch the result is the bare rebuilt unpivot when the
\* local group is empty, else one projection over local group ++ forwardable
\* group, both in the parent's order.
C3_WrapShape ==
    (on # <<>> /\ pc = "done" /\ result.kind # "err") =>
        /\ loc0 = SplitLocal(req, Range(inputSchema))
        /\ acc = SplitForward(req, Range(inputSchema))
        /\ (loc0 = <<>> => result.kind = "unpivot" /\ result.schema = rebuilt)
        /\ (loc0 # <<>> => result.kind = "project" /\ result.exprs = loc0 \o acc)

C3_Witness ==
    on # <<>> /\ pc = "done" /\ result.kind = "project" /\ acc # <<>>

\* C4 (as stated): every returned plan outputs exactly the required columns
\* in the required order.
C4_ExactSchema ==
    (pc = "done" /\ result.kind # "err" /\ req # <<>>) =>
        result.schema = Names(req)

\* C4 (amended): with a non-empty `on`, the returned plan outputs every
\* required column, and a wrapped plan outputs local group ++ forwardable
\* group; a bare unpivot keeps its full output. With an empty `on`, the
\* restart fallback projects exactly the required columns.
C4_SupersetSchema ==
    /\ (on # <<>> /\ pc = "done" /\ result.kind # "err") =>
        /\ Range(Names(req)) \subseteq Range(result.schema)
        /\ (loc0 # <<>> => result.schema = Names(loc0 \o acc))
        /\ (loc0 = <<>> => result.schema = UnpivotSchema(index))
    /\ (on = <<>> /\ pc = "done" /\ result.kind # "err" /\ req # <<>>) =>
        result.schema = Names(req)

C4_Witness ==
    on # <<>> /\ pc = "done" /\ result.kind = "unpivot" /\ req = <<Col("id")>>

Scenario ==
    /\ inputSchema = <<"id", "y1", "y2">>
    /\ index = <<"id">> /\ on = <<"y1", "y2">>

\* C5 (as stated): required {id, value} gives child context {id, y1, y2},
\* rebuilt output {id, variable, value} and no wrapping projection.
C5_NoWrap ==
    (Scenario /\ req = <<Col("id"), Col("value")>> /\ pc = "done" /\ childErr = "none") =>
        /\ childCtx = {"id", "y1", "y2"}
        /\ rebuilt = <<"id", "variable", "value">>
        /\ result.kind = "unpivot"

\* C5 (amended): the same, except that `value` is not an input column, so it
\* forms the local group and the node is wrapped in the projection [value, id].
C5_WrapValue ==
    (Scenario /\ req = <<Col("id"), Col("value")>> /\ pc = "done" /\ childErr = "none") =>
        /\ childCtx = {"id", "y1", "y2"}
        /\ rebuilt = <<"id", "variable", "value">>
        /\ loc0 = <<Col("value")>>
        /\ result.kind = "project"
        /\ result.exprs = <<Col("value"), Col("id")>>

C5_Witness ==
    Scenario /\ req = <<Col("id"), Col("value")>> /\ pc = "done" /\ childErr = "none"

\* C7: the input is rewritten and its slot finalised before the unpivot node
\* is rebuilt.
C7_ChildBeforeRebuild ==
    [][Rebuild => childFinal]_uvars

C7_Witness ==
    on # <<>> /\ pc = "finish" /\ childFinal

\* C8: an error of the subtree rewrite is returned unchanged as Err, and no
\* path ends in a panic (the unwrap of project_simple_nodes never fails).
C8_ErrorsPropagate ==
    pc = "done" =>
        /\ result.kind \in {"unpivot", "project", "err"}
        /\ (childErr # "none" => result.kind = "err" /\ result.err = childErr)

C8_Witness ==
    on # <<>> /\ pc = "done" /\ childErr # "none" /\ result.kind = "err"

\* bound of position i as the caller sees it (a scalar is broadcast)
BAt(b, i) == IF Len(b) = 1 THEN b[1] ELSE b[i]
LoAt(i) == IF cop = "clip_max" THEN Null ELSE BAt(cmin, i)
HiAt(i) == IF cop = "clip_min" THEN Null ELSE BAt(cmax, i)

\* A position where both bounds are non-null and min > max.
Inverted(i) ==
    cs[i] # Null /\ LoAt(i) # Null /\ HiAt(i) # Null /\ LoAt(i) > HiAt(i)

\* C9: at every position clip returns null for a null value, and otherwise
\* the value clamped to [min, max], a null bound leaving only that side
\* unbounded (stated where min <= max, the interval being non-empty).
C9_NullBoundUnbounded ==
    (cpc = "done" /\ cout.status = "ok") =>
        \A i \in DOMAIN cs :
           LET v == cs[i]  lo == LoAt(i)  hi == HiAt(i)  r == cout.vals[i] IN
           ~Inverted(i) =>
             IF v = Null THEN r = Null
             ELSE /\ (lo # Null => lo <= r)
                  /\ (hi # Null => r <= hi)
                  /\ ((lo = Null \/ lo <= v) /\ (hi = Null \/ v <= hi) => r = v)

\* C10 (as stated): a length-mismatch error exactly under the length rule of
\* each variant, and InvalidOperation for a non-numeric dtype.
LenRule ==
    LET ls == Len(cs)  lmin == Len(cmin)  lmax == Len(cmax)
        n == IF ls # 1 THEN ls ELSE IF lmin # 1 THEN lmin ELSE IF lmax # 1 THEN lmax ELSE 1
    IN IF cop = "clip" THEN \E l \in {ls, lmin, lmax} : l # 1 /\ l # n
       ELSE IF cop = "clip_min" THEN ls # lmin /\ ls # 1 /\ lmin # 1
       ELSE ls # lmax /\ ls # 1 /\ lmax # 1

C10_Errors ==
    cpc = "done" =>
        /\ (cout.err = "LengthMismatch") <=> LenRule
        /\ (cdtype \notin Numeric => cout.err = "InvalidOperation")

\* C10 (amended): for a numeric dtype, the length-mismatch error happens
\* exactly under the length rule; a non-numeric dtype gives InvalidOperation
\* whatever the lengths (the dtype check comes first).
C10_ErrorsAmended ==
    cpc = "done" =>
        /\ cdtype \in Numeric => ((cout.err = "LengthMismatch") <=> LenRule)
        /\ cdtype \notin Numeric => cout.err = "InvalidOperation"

C10_Witness ==
    cpc = "done" /\ cdtype \in Numeric /\ cop = "clip" /\ Len(cs) = 1
    /\ cout.err = "LengthMismatch"

====
